---- MODULE Spec2Model ----
(***************************************************************************)
(* A model of the recursive ray tracer of raytracer_rust:                  *)
(*   geometry.rs   vectors over f64                                        *)
(*   materials.rs  materials                                               *)
(*   lights.rs     ambient, point and directional lights                   *)
(*   shapes.rs     sphere, axis-aligned box, infinite plane                *)
(*   scene.rs      scene_intersect, is_in_shadow, compute_lighthing,       *)
(*                 cast_ray, Scene::render_scene                           *)
(*   main.rs       the sequential variant of the same engine               *)
(*                                                                         *)
(* Numbers.  An f64 is modelled as a record: a finite value is a fixed     *)
(* point number with six decimals (v = 1000000 * value, so EPSILON = 1e-3  *)
(* is v = 1000), and NaN, +infinity and -infinity are values of their own  *)
(* that follow the IEEE rules (inf - inf = NaN, 0/0 = NaN, x/0 = inf, a    *)
(* comparison with NaN is false).  Every finite result is rounded to the   *)
(* nearest representable value, ties away from zero.  Finite values stay   *)
(* below 2147 in magnitude (TLC's integers have 32 bits and TLC stops on   *)
(* an overflow, so no run wraps around silently).  The sign of zero is     *)
(* not modelled: every zero is +0.                                         *)
(***************************************************************************)
EXTENDS Integers, Sequences, FiniteSets, TLC

\* One unit of the fixed point representation: v = SCALE * value.
SCALE == 1000000

\* Rust evaluates a `let` where it stands and every argument before the call.
\* Evaluated(x) is TRUE once x has been evaluated: the definitions below use
\* it to keep the source's order of evaluation.
Evaluated(x) == x = x

----------------------------------------------------------------------------
(* f64 *)

Fl(n) == [k |-> "fin", v |-> n]
\* The value n / 1000.
Mil(n) == Fl(n * 1000)
NaN == [k |-> "nan", v |-> 0]
PInf == [k |-> "inf", v |-> 1]
NInf == [k |-> "inf", v |-> -1]
Zero == Fl(0)
One == Fl(SCALE)

IsNaN(a) == a.k = "nan"
IsInf(a) == a.k = "inf"
IsFin(a) == a.k = "fin"

Abs(n) == IF n < 0 THEN -n ELSE n
Sgn(n) == IF n < 0 THEN -1 ELSE IF n > 0 THEN 1 ELSE 0

\* a * b / SCALE for a, b >= 0, rounded to the nearest integer, computed on
\* the base 1000 digits of a and b so that no intermediate product leaves
\* 32 bits.
MulScaled(a, b) ==
    LET a2 == a \div SCALE
        a1 == (a \div 1000) % 1000
        a0 == a % 1000
        b2 == b \div SCALE
        b1 == (b \div 1000) % 1000
        b0 == b % 1000
        high == a2 * b2 * SCALE + (a2 * b1 + a1 * b2) * 1000 + (a2 * b0 + a1 * b1 + a0 * b2)
        low == (a1 * b0 + a0 * b1) * 1000 + a0 * b0
    IN  high + (low + SCALE \div 2) \div SCALE

\* The decimal digits of r / d after the point, n of them, appended to q
\* (0 <= r < d): long division.  The result is <<quotient, remainder>>.
RECURSIVE LongDiv(_, _, _, _)
LongDiv(q, r, d, n) ==
    IF n = 0 THEN <<q, r>>
    ELSE LongDiv(q * 10 + (r * 10) \div d, (r * 10) % d, d, n - 1)

\* a * SCALE / d for a >= 0, d > 0, rounded to the nearest integer.
DivScaled(a, d) ==
    LET nearest(qr) == IF 2 * qr[2] >= d THEN qr[1] + 1 ELSE qr[1]
    IN  nearest(LongDiv(a \div d, a % d, d, 6))

\* The sign of a value that is not NaN, with every zero counted positive.
SignOf(a) == IF a.v < 0 THEN -1 ELSE 1

FInf(s) == IF s < 0 THEN NInf ELSE PInf

FNeg(a) == IF IsNaN(a) THEN NaN ELSE [k |-> a.k, v |-> -a.v]

FAdd(a, b) ==
    IF IsNaN(a) \/ IsNaN(b) THEN NaN
    ELSE IF IsInf(a) /\ IsInf(b) THEN (IF a.v = b.v THEN a ELSE NaN)
    ELSE IF IsInf(a) THEN a
    ELSE IF IsInf(b) THEN b
    ELSE Fl(a.v + b.v)

FSub(a, b) == FAdd(a, FNeg(b))

FMul(a, b) ==
    IF IsNaN(a) \/ IsNaN(b) THEN NaN
    ELSE IF IsInf(a) \/ IsInf(b)
         THEN (IF a.v = 0 \/ b.v = 0 THEN NaN ELSE FInf(SignOf(a) * SignOf(b)))
    ELSE Fl(Sgn(a.v) * Sgn(b.v) * MulScaled(Abs(a.v), Abs(b.v)))

FDiv(a, b) ==
    IF IsNaN(a) \/ IsNaN(b) THEN NaN
    ELSE IF IsInf(a) THEN (IF IsInf(b) THEN NaN ELSE FInf(SignOf(a) * SignOf(b)))
    ELSE IF IsInf(b) THEN Zero
    ELSE IF b.v = 0 THEN (IF a.v = 0 THEN NaN ELSE FInf(SignOf(a)))
    ELSE Fl(Sgn(a.v) * Sgn(b.v) * DivScaled(Abs(a.v), Abs(b.v)))

\* a < b, a > b, a == b, a <= b as f64 compares: false as soon as one side
\* is NaN.
FLt(a, b) ==
    IF IsNaN(a) \/ IsNaN(b) THEN FALSE
    ELSE IF IsInf(a) THEN a.v < 0 /\ ~(IsInf(b) /\ b.v < 0)
    ELSE IF IsInf(b) THEN b.v > 0
    ELSE a.v < b.v

FGt(a, b) == FLt(b, a)

FEq(a, b) == ~IsNaN(a) /\ ~IsNaN(b) /\ a = b

FLe(a, b) == FLt(a, b) \/ FEq(a, b)

\* f64::max and f64::min: a NaN operand is ignored.
FMax(a, b) == IF IsNaN(a) THEN b ELSE IF IsNaN(b) THEN a ELSE IF FLt(a, b) THEN b ELSE a
FMin(a, b) == IF IsNaN(a) THEN b ELSE IF IsNaN(b) THEN a ELSE IF FLt(b, a) THEN b ELSE a

\* f64::clamp(lo, hi): NaN stays NaN.
FClamp(a, lo, hi) == IF FLt(a, lo) THEN lo ELSE IF FGt(a, hi) THEN hi ELSE a

FAbs(a) == IF IsNaN(a) THEN NaN ELSE [k |-> a.k, v |-> Abs(a.v)]

\* a * b for a, b >= 0 in full: <<high, low>> with a * b = (high * SCALE + low) / SCALE,
\* on the base 1000 digits as in MulScaled.
MulExact(a, b) ==
    LET a2 == a \div SCALE
        a1 == (a \div 1000) % 1000
        a0 == a % 1000
        b2 == b \div SCALE
        b1 == (b \div 1000) % 1000
        b0 == b % 1000
    IN  <<a2 * b2 * SCALE + (a2 * b1 + a1 * b2) * 1000 + (a2 * b0 + a1 * b1 + a0 * b2),
          (a1 * b0 + a0 * b1) * 1000 + a0 * b0>>

\* The one rounding of a fused operation: the integer nearest to
\* h + l / SCALE.  A result that is not zero does not round to zero: an f64
\* keeps the sign of a difference however small it is.
FusedRound(h, l) ==
    LET whole == h + l \div SCALE
        rest == l % SCALE
        nearest == IF 2 * rest >= SCALE THEN whole + 1 ELSE whole
    IN  IF nearest # 0 THEN nearest
        ELSE IF whole = 0 /\ rest = 0 THEN 0
        ELSE IF whole < 0 THEN -1 ELSE 1

\* f64::mul_add(a, b, c) = a * b + c, rounded once.
FMulAdd(a, b, c) ==
    LET fused(s, p) == Fl(FusedRound(s * p[1] + c.v, s * p[2]))
    IN  IF IsFin(a) /\ IsFin(b) /\ IsFin(c)
        THEN fused(Sgn(a.v) * Sgn(b.v), MulExact(Abs(a.v), Abs(b.v)))
        ELSE FAdd(FMul(a, b), c)

\* Whether r is at most the square root of n < 2^31 (r * r leaves 32 bits
\* beyond 46340).
RootFits(r, n) == r <= 46340 /\ r * r <= n

\* The largest r among base, base + step, ..., base + 35 * step for which
\* RootFits holds (it holds for base): one digit, in base 36, of the root.
RootDigit(n, base, step) ==
    CASE Evaluated(base) ->
    base + step * (CHOOSE k \in 0 .. 35 :
                       /\ RootFits(base + step * k, n)
                       /\ (k = 35 \/ ~RootFits(base + step * (k + 1), n)))

\* The integer square root of n < 2^31.
ISqrt(n) == RootDigit(n, RootDigit(n, RootDigit(n, 0, 1296), 36), 1)

\* With i = ISqrt(n) and d = n - i * i: whether f < 1000 and
\* (1000 * i + f)^2 <= SCALE * n.
FracFits(i, d, f) ==
    /\ f <= 999
    /\ d * 1000 - 2 * i * f >= 0
    /\ (d * 1000 - 2 * i * f >= 1000 \/ (d * 1000 - 2 * i * f) * 1000 >= f * f)

\* The largest f among base, base + step, ..., base + 31 * step for which
\* FracFits holds (it holds for base): one digit, in base 32, of the three
\* decimals of the root.
FracDigit(i, d, base, step) ==
    CASE Evaluated(base) ->
    base + step * (CHOOSE k \in 0 .. 31 :
                       /\ FracFits(i, d, base + step * k)
                       /\ (k = 31 \/ ~FracFits(i, d, base + step * (k + 1))))

\* The square root of SCALE * n, rounded to the nearest integer.
SqrtScaled(n) ==
    LET with_f(i, d, f) ==
            IF Evaluated(f) /\ (d * 1000 - 2 * i * f) * 1000 - f * f > 1000 * i + f
            THEN 1000 * i + f + 1
            ELSE 1000 * i + f
        with_i(i) ==
            CASE Evaluated(i) ->
                with_f(i, n - i * i,
                       FracDigit(i, n - i * i, FracDigit(i, n - i * i, 0, 32), 1))
    IN  with_i(ISqrt(n))

FSqrt(a) ==
    IF IsNaN(a) THEN NaN
    ELSE IF IsInf(a) THEN (IF a.v > 0 THEN PInf ELSE NaN)
    ELSE IF a.v < 0 THEN NaN
    ELSE Fl(SqrtScaled(a.v))

\* f64::powf(a, e) for an exponent that is a whole number (every
\* specular_exponent of materials.rs is): e multiplications by squaring.
\* h * h for an even exponent, h * h * a for an odd one.
PowJoin(h, a, odd) ==
    IF Evaluated(h) /\ odd = 0 THEN FMul(h, h) ELSE FMul(FMul(h, h), a)

RECURSIVE IPow(_, _)
IPow(a, n) ==
    IF n = 0 THEN One ELSE IF n = 1 THEN a ELSE PowJoin(IPow(a, n \div 2), a, n % 2)

FPowf(a, e) ==
    IF IsNaN(a) \/ IsNaN(e) THEN NaN
    ELSE IF IsFin(a) /\ (a.v = 0 \/ a.v = SCALE) THEN a
    ELSE IPow(a, e.v \div SCALE)

\* f64::round: to the nearest whole number, ties away from zero.
FRound(a) ==
    IF IsFin(a) THEN Fl(Sgn(a.v) * ((Abs(a.v) + SCALE \div 2) \div SCALE) * SCALE) ELSE a

\* `as u8` as a cast that wraps: the whole number modulo 256.
AsU8_wrapping(a) == IF IsFin(a) THEN (a.v \div SCALE) % 256 ELSE 0

\* `as u8`: the saturating cast of a whole f64; NaN becomes 0.
AsU8(a) ==
    IF IsNaN(a) THEN 0
    ELSE IF IsInf(a) THEN (IF a.v > 0 THEN 255 ELSE 0)
    ELSE LET n == a.v \div SCALE
         IN  IF n < 0 THEN 0 ELSE IF n > 255 THEN 255 ELSE n

\* Option<T>: None is the empty sequence, Some(x) the sequence of x alone.
None == << >>
Some(x) == <<x>>
IsSome(o) == Len(o) = 1
Unwrap(o) == o[1]

----------------------------------------------------------------------------
(* geometry.rs: RaytracerVector<f64, 3> as a triple of f64 *)

new_with_data(x, y, z) == <<x, y, z>>
\* The vector (x, y, z) / 1000.
Vec3(x, y, z) == <<Mil(x), Mil(y), Mil(z)>>
ZeroVec == Vec3(0, 0, 0)
NaNVec == <<NaN, NaN, NaN>>

VNeg(a) == <<FNeg(a[1]), FNeg(a[2]), FNeg(a[3])>>
VAdd(a, b) == <<FAdd(a[1], b[1]), FAdd(a[2], b[2]), FAdd(a[3], b[3])>>
VSub(a, b) == <<FSub(a[1], b[1]), FSub(a[2], b[2]), FSub(a[3], b[3])>>
VMulS(a, s) == <<FMul(a[1], s), FMul(a[2], s), FMul(a[3], s)>>
VDivS(a, s) == <<FDiv(a[1], s), FDiv(a[2], s), FDiv(a[3], s)>>

\* The `*` of two vectors: the sum, from 0.0 and in order, of the products.
VDot(a, b) ==
    FAdd(FAdd(FAdd(Zero, FMul(a[1], b[1])), FMul(a[2], b[2])), FMul(a[3], b[3]))

length(a) ==
    FSqrt(FAdd(FAdd(FAdd(Zero, FMul(a[1], a[1])), FMul(a[2], a[2])), FMul(a[3], a[3])))

\* normalize(None): every element divided by the length.
normalize(a) == CASE Evaluated(a) -> VDivS(a, length(a))

VecHasNaN(a) == IsNaN(a[1]) \/ IsNaN(a[2]) \/ IsNaN(a[3])
VecFinite(a) == IsFin(a[1]) /\ IsFin(a[2]) /\ IsFin(a[3])

----------------------------------------------------------------------------
(* main.rs: the constants of the engine *)

MAX_DEPTH == 4
EPSILON == Mil(1)
BACKGROUND_COLOR == Vec3(200, 700, 800)
\* The far plane of scene_intersect: 1000.0.
FAR_PLANE == Mil(1000000)

----------------------------------------------------------------------------
(* materials.rs *)

Material_new(albedo, diffuse_color, ambient_color, specular_exponent, refractive_index) ==
    [albedo |-> albedo, diffuse_color |-> diffuse_color, ambient_color |-> ambient_color,
     specular_exponent |-> specular_exponent, refractive_index |-> refractive_index]

Vec4(a, b, c, d) == <<Mil(a), Mil(b), Mil(c), Mil(d)>>

RED_MATERIAL ==
    Material_new(Vec4(600, 300, 0, 100), Vec3(1000, 100, 100), Vec3(200, 50, 50),
                 Mil(250000), Mil(1000))
GREEN_MATERIAL ==
    Material_new(Vec4(600, 300, 0, 100), Vec3(100, 1000, 100), Vec3(50, 200, 50),
                 Mil(125000), Mil(1000))
BLUE_MATERIAL ==
    Material_new(Vec4(600, 300, 0, 100), Vec3(100, 100, 1000), Vec3(50, 50, 200),
                 Mil(125000), Mil(1000))
MIRROR_MATERIAL ==
    Material_new(Vec4(0, 0, 900, 30), Vec3(1000, 1000, 1000), Vec3(0, 0, 0),
                 Mil(1000000), Mil(1000))
GLASS_MATERIAL ==
    Material_new(Vec4(0, 500, 100, 800), Vec3(600, 700, 800), Vec3(100, 100, 200),
                 Mil(300000), Mil(1500))
GOLD_MATERIAL ==
    Material_new(Vec4(800, 300, 0, 0), Vec3(1000, 843, 0), Vec3(200, 170, 50),
                 Mil(500000), Mil(1000))

----------------------------------------------------------------------------
(* lights.rs *)

AmbientLight_new(intensity) == [type |-> "Ambient", intensity |-> intensity]
PointLight_new(intensity, position) ==
    [type |-> "Point", intensity |-> intensity, position |-> position]
DirectionalLight_new(intensity, direction) ==
    [type |-> "Directional", intensity |-> intensity, direction |-> direction]

intensity(light) == light.intensity

\* is_ambient as the default method of the trait, overridden by no light.
is_ambient_default(light) == FALSE

is_ambient(light) == light.type = "Ambient"

get_direction(light, point) ==
    CASE light.type = "Ambient" -> ZeroVec
      [] light.type = "Point" -> normalize(VSub(light.position, point))
      [] light.type = "Directional" -> light.direction

get_distance(light, point) ==
    CASE light.type = "Ambient" -> Zero
      [] light.type = "Point" -> length(VSub(light.position, point))
      [] light.type = "Directional" -> PInf


----------------------------------------------------------------------------
(* shapes.rs *)

Sphere_new(center, radius, material) ==
    [type |-> "Sphere", center |-> center, radius |-> radius, material |-> material]
BoxShape_new(max_point, min_point, material) ==
    [type |-> "BoxShape", max_point |-> max_point, min_point |-> min_point,
     material |-> material]
InfinityPlane_new(position, normal, material) ==
    [type |-> "InfinityPlane", position |-> position, normal |-> normalize(normal),
     material |-> material]

\* The local operators are the `let`s of the source, last one first: each
\* takes the values computed before it.
Sphere_ray_intersect(self, origin, direction) ==
    LET \* if t0 < 0.0 { t0 = t1; }  if t0 < 0.0 { return None; }  Some(t0)
        roots(t0, t1) ==
            IF Evaluated(<<t0, t1>>) /\ FLt(t0, Zero)
            THEN (IF FLt(t1, Zero) THEN None ELSE Some(t1))
            ELSE Some(t0)
        with_thc(tca, thc) ==
            CASE Evaluated(thc) -> roots(FSub(tca, thc), FAdd(tca, thc))
        with_d2(tca, d2) ==
            IF Evaluated(d2) /\ FGt(d2, FMul(self.radius, self.radius)) THEN None
            ELSE with_thc(tca, FSqrt(FMulAdd(self.radius, self.radius, FNeg(d2))))
        with_l(l, tca) ==
            CASE Evaluated(<<l, tca>>) ->
                with_d2(tca, FMulAdd(tca, FNeg(tca), VDot(l, l)))
    IN  with_l(VSub(self.center, origin), VDot(VSub(self.center, origin), direction))

BoxShape_ray_intersect(self, origin, direction) ==
    LET range(tmin, tmax) ==
            IF Evaluated(<<tmin, tmax>>) /\ (FLt(tmax, Zero) \/ FGt(tmin, tmax)) THEN None
            ELSE Some(IF FLt(tmin, Zero) THEN tmax ELSE tmin)
        slabs(t1, t2, t3, t4, t5, t6) ==
            CASE Evaluated(<<t1, t2, t3, t4, t5, t6>>) ->
                range(FMax(FMax(FMin(t1, t2), FMin(t3, t4)), FMin(t5, t6)),
                      FMin(FMin(FMax(t1, t2), FMax(t3, t4)), FMax(t5, t6)))
        with_inv_dir(inv_dir) ==
            CASE Evaluated(inv_dir) ->
            slabs(FMul(FSub(self.min_point[1], origin[1]), inv_dir[1]),
                  FMul(FSub(self.max_point[1], origin[1]), inv_dir[1]),
                  FMul(FSub(self.min_point[2], origin[2]), inv_dir[2]),
                  FMul(FSub(self.max_point[2], origin[2]), inv_dir[2]),
                  FMul(FSub(self.min_point[3], origin[3]), inv_dir[3]),
                  FMul(FSub(self.max_point[3], origin[3]), inv_dir[3]))
    IN  with_inv_dir(<<FDiv(One, direction[1]), FDiv(One, direction[2]),
                       FDiv(One, direction[3])>>)

InfinityPlane_ray_intersect(self, origin, direction) ==
    LET ahead(s) == IF FLt(s, Zero) THEN None ELSE Some(s)
        with_ray_point(ray_point) ==
            IF Evaluated(ray_point) /\ FLt(FAbs(ray_point), EPSILON) THEN None
            ELSE ahead(FDiv(VDot(self.normal, VSub(self.position, origin)), ray_point))
    IN  with_ray_point(VDot(direction, self.normal))

ray_intersect(shape, origin, direction) ==
    CASE shape.type = "Sphere" -> Sphere_ray_intersect(shape, origin, direction)
      [] shape.type = "BoxShape" -> BoxShape_ray_intersect(shape, origin, direction)
      [] shape.type = "InfinityPlane" -> InfinityPlane_ray_intersect(shape, origin, direction)

Sphere_get_normal(self, hit_point) == normalize(VSub(hit_point, self.center))

\* BoxShape::get_normal with the z faces tested first.
BoxShape_get_normal_z_first(self, hit_point) ==
    IF FLt(FAbs(FSub(hit_point[3], self.min_point[3])), EPSILON) THEN Vec3(0, 0, -1000)
    ELSE IF FLt(FAbs(FSub(hit_point[3], self.max_point[3])), EPSILON) THEN Vec3(0, 0, 1000)
    ELSE IF FLt(FAbs(FSub(hit_point[1], self.min_point[1])), EPSILON) THEN Vec3(-1000, 0, 0)
    ELSE IF FLt(FAbs(FSub(hit_point[1], self.max_point[1])), EPSILON) THEN Vec3(1000, 0, 0)
    ELSE IF FLt(FAbs(FSub(hit_point[2], self.min_point[2])), EPSILON) THEN Vec3(0, -1000, 0)
    ELSE IF FLt(FAbs(FSub(hit_point[2], self.max_point[2])), EPSILON) THEN Vec3(0, 1000, 0)
    ELSE ZeroVec

BoxShape_get_normal(self, hit_point) ==
    IF FLt(FAbs(FSub(hit_point[1], self.min_point[1])), EPSILON) THEN Vec3(-1000, 0, 0)
    ELSE IF FLt(FAbs(FSub(hit_point[1], self.max_point[1])), EPSILON) THEN Vec3(1000, 0, 0)
    ELSE IF FLt(FAbs(FSub(hit_point[2], self.min_point[2])), EPSILON) THEN Vec3(0, -1000, 0)
    ELSE IF FLt(FAbs(FSub(hit_point[2], self.max_point[2])), EPSILON) THEN Vec3(0, 1000, 0)
    ELSE IF FLt(FAbs(FSub(hit_point[3], self.min_point[3])), EPSILON) THEN Vec3(0, 0, -1000)
    ELSE IF FLt(FAbs(FSub(hit_point[3], self.max_point[3])), EPSILON) THEN Vec3(0, 0, 1000)
    ELSE ZeroVec

get_normal(shape, hit_point) ==
    CASE shape.type = "Sphere" -> Sphere_get_normal(shape, hit_point)
      [] shape.type = "BoxShape" -> BoxShape_get_normal(shape, hit_point)
      [] shape.type = "InfinityPlane" -> shape.normal

get_material(shape) == shape.material

----------------------------------------------------------------------------
(* scene.rs: the engine *)

\* scene.rs to_u8: (color * 255.0).round() as u8.
to_u8(color) == AsU8(FRound(FMul(color, Mil(255000))))

\* main.rs to_u8: (color.clamp(0.0, 1.0) * 255.0).round() as u8.
main_to_u8(color) == AsU8(FRound(FMul(FClamp(color, Zero, One), Mil(255000))))

reflect(direction, normal) ==
    VSub(direction, VMulS(VMulS(normal, VDot(direction, normal)), Mil(2000)))

refract(direction, normal, refractive_index) ==
    LET with_k(cosi, n, eta, k) ==
            IF FLt(k, Zero) THEN ZeroVec
            ELSE VAdd(VMulS(direction, eta), VMulS(n, FMulAdd(eta, cosi, FNeg(FSqrt(k)))))
        with_eta(cosi, n, eta) ==
            CASE Evaluated(eta) ->
                with_k(cosi, n, eta,
                       FMulAdd(FMul(eta, eta), FNeg(FMulAdd(cosi, FNeg(cosi), One)), One))
        oriented(cosi, ior_in, ior_out, n) == with_eta(cosi, n, FDiv(ior_in, ior_out))
        with_cosi(cosi) ==
            IF Evaluated(cosi) /\ FLt(cosi, Zero)
            THEN oriented(FMul(cosi, FNeg(One)), refractive_index, One, VNeg(normal))
            ELSE oriented(cosi, One, refractive_index, normal)
    IN  with_cosi(FClamp(VDot(direction, normal), FNeg(One), One))

\* The locals of refract at its test of k: cosi as clamped at first, whether
\* the branch cosi < 0.0 was taken, and cosi, n, eta and k after it.
refract_cosi_in(direction, normal) == FClamp(VDot(direction, normal), FNeg(One), One)
refract_swapped(direction, normal) == FLt(refract_cosi_in(direction, normal), Zero)
refract_cosi(direction, normal) ==
    IF refract_swapped(direction, normal)
    THEN FMul(refract_cosi_in(direction, normal), FNeg(One))
    ELSE refract_cosi_in(direction, normal)
refract_n(direction, normal) ==
    IF refract_swapped(direction, normal) THEN VNeg(normal) ELSE normal
refract_eta(direction, normal, refractive_index) ==
    IF refract_swapped(direction, normal) THEN FDiv(refractive_index, One)
    ELSE FDiv(One, refractive_index)
refract_k(direction, normal, refractive_index) ==
    FMulAdd(FMul(refract_eta(direction, normal, refractive_index),
                 refract_eta(direction, normal, refractive_index)),
            FNeg(FMulAdd(refract_cosi(direction, normal),
                         FNeg(refract_cosi(direction, normal)), One)),
            One)

\* adjust_ray_origin without its test: always to the side of the normal.
adjust_ray_origin_outward(direction, point, normal) == VAdd(point, VMulS(normal, EPSILON))

adjust_ray_origin(direction, point, normal) ==
    IF Evaluated(direction) /\ FLt(VDot(direction, normal), Zero) THEN VSub(point, VMulS(normal, EPSILON))
    ELSE VAdd(point, VMulS(normal, EPSILON))

\* The closure of filter_map: a shape that is hit gives
\* (distance, (hit, normal, material)).
hit_of(shape, origin, direction) ==
    LET at(distance, hit) ==
            Some(<<distance, <<hit, get_normal(shape, hit), get_material(shape)>>>>)
        found(d) ==
            IF Evaluated(d) /\ IsSome(d) THEN at(Unwrap(d), VAdd(origin, VMulS(direction, Unwrap(d))))
            ELSE None
    IN  found(ray_intersect(shape, origin, direction))

\* f64::partial_cmp.
partial_cmp(a, b) ==
    IF IsNaN(a) \/ IsNaN(b) THEN None
    ELSE Some(IF FLt(a, b) THEN "Less" ELSE IF FGt(a, b) THEN "Greater" ELSE "Equal")

\* cmp_distance with the two NaN arms exchanged.
cmp_distance_nan_first(a, b) ==
    CASE IsSome(partial_cmp(a, b)) /\ ~IsNaN(a) /\ ~IsNaN(b) -> Unwrap(partial_cmp(a, b))
      [] IsNaN(a) /\ ~IsNaN(b) -> "Less"
      [] ~IsNaN(a) /\ IsNaN(b) -> "Greater"
      [] OTHER -> "Equal"

\* The comparator of min_by.
cmp_distance(a, b) ==
    CASE IsSome(partial_cmp(a, b)) /\ ~IsNaN(a) /\ ~IsNaN(b) -> Unwrap(partial_cmp(a, b))
      [] IsNaN(a) /\ ~IsNaN(b) -> "Greater"
      [] ~IsNaN(a) /\ IsNaN(b) -> "Less"
      [] OTHER -> "Equal"

\* min_by_step as max_by has it: of two items that compare Equal the later.
min_by_step_last(acc, item) ==
    IF ~IsSome(acc) THEN Some(item)
    ELSE IF cmp_distance(Unwrap(acc)[1], item[1]) = "Less" THEN acc ELSE Some(item)

\* One step of Iterator::min_by: the accumulator (an Option) and the next
\* item; the earlier item is kept unless it compares Greater.
min_by_step(acc, item) ==
    IF ~IsSome(acc) THEN Some(item)
    ELSE IF cmp_distance(Unwrap(acc)[1], item[1]) = "Greater" THEN Some(item) ELSE acc

\* filter_map in front of min_by: a shape that is not hit is no item.
min_by_next(acc, h) == IF Evaluated(h) /\ IsSome(h) THEN min_by_step(acc, Unwrap(h)) ELSE acc

\* The scan over shapes[i ..]: filter_map and min_by.
RECURSIVE min_hit_from(_, _, _, _, _)
min_hit_from(acc, i, origin, direction, shapes) ==
    IF Evaluated(acc) /\ i > Len(shapes) THEN acc
    ELSE min_hit_from(min_by_next(acc, hit_of(shapes[i], origin, direction)),
                      i + 1, origin, direction, shapes)

\* The far-plane filter and the final map of scene_intersect.
far_filter(best) ==
    IF IsSome(best) /\ FLt(Unwrap(best)[1], FAR_PLANE) THEN Some(Unwrap(best)[2]) ELSE None

scene_intersect(origin, direction, shapes) ==
    far_filter(min_hit_from(None, 1, origin, direction, shapes))

\* is_in_shadow with <= for its <.
is_in_shadow_le(normal, point, light_direction, light_distance, shapes) ==
    LET tested(shadow_origin, r) ==
            IF Evaluated(r) /\ ~IsSome(r) THEN <<FALSE, None>>
            ELSE <<FLe(length(VSub(Unwrap(r)[1], shadow_origin)), light_distance),
                   Some(<<shadow_origin, Unwrap(r)[1]>>)>>
        from(shadow_origin) ==
            CASE Evaluated(shadow_origin) ->
                tested(shadow_origin, scene_intersect(shadow_origin, light_direction, shapes))
    IN  from(adjust_ray_origin(light_direction, point, normal))

is_in_shadow(normal, point, light_direction, light_distance, shapes) ==
    LET tested(shadow_origin, r) ==
            IF Evaluated(r) /\ ~IsSome(r) THEN <<FALSE, None>>
            ELSE <<FLt(length(VSub(Unwrap(r)[1], shadow_origin)), light_distance),
                   Some(<<shadow_origin, Unwrap(r)[1]>>)>>
        from(shadow_origin) ==
            CASE Evaluated(shadow_origin) ->
                tested(shadow_origin, scene_intersect(shadow_origin, light_direction, shapes))
    IN  from(adjust_ray_origin(light_direction, point, normal))

\* shadow_recheck with the comparison turned around.
shadow_recheck_beyond(shadowed, shadow_point, light_distance) ==
    /\ shadowed
    /\ IsSome(shadow_point)
    /\ FGt(length(VSub(Unwrap(shadow_point)[2], Unwrap(shadow_point)[1])), light_distance)

\* The re-check of compute_lighthing on what is_in_shadow returned:
\* if shadowed { if let Some((origin, hit)) = shadow_point {
\*     if (hit - origin).length() < light_distance { ... } } }
shadow_recheck(shadowed, shadow_point, light_distance) ==
    /\ shadowed
    /\ IsSome(shadow_point)
    /\ FLt(length(VSub(Unwrap(shadow_point)[2], Unwrap(shadow_point)[1])), light_distance)

\* What the lighting loop calls for an ambient light and for any other one.
AmbientCalls == {"is_ambient", "intensity"}
LightCalls ==
    {"is_ambient", "intensity", "get_direction", "get_distance", "reflect", "is_in_shadow"}

\* One light of the loop of compute_lighthing.  val is the closure's result
\* (ambient, specular, diffuse); ambient is what is_ambient answered, shadowed
\* what is_in_shadow reported (FALSE when it is not called), skipped whether
\* the light was given up after the re-check, called the methods and
\* functions called for this light.
light_term(light, hit, normal, direction, material, shapes) ==
    LET lit(light_direction, refl) ==
            <<Zero,
              FMul(FPowf(FMax(refl, Zero), material.specular_exponent), intensity(light)),
              FMul(intensity(light), FMax(Zero, VDot(light_direction, normal)))>>
        shaded(light_direction, light_distance, refl, sh) ==
            IF Evaluated(refl) /\ Evaluated(sh) /\ shadow_recheck(sh[1], sh[2], light_distance)
            THEN [val |-> <<Zero, Zero, Zero>>, ambient |-> FALSE, shadowed |-> sh[1],
                  skipped |-> TRUE, called |-> LightCalls]
            ELSE [val |-> lit(light_direction, refl), ambient |-> FALSE, shadowed |-> sh[1],
                  skipped |-> FALSE, called |-> LightCalls]
        aimed(light_direction, light_distance) ==
            CASE Evaluated(<<light_direction, light_distance>>) ->
                shaded(light_direction, light_distance,
                       VDot(reflect(light_direction, normal), direction),
                       is_in_shadow(normal, hit, light_direction, light_distance, shapes))
    IN  IF is_ambient(light)
        THEN [val |-> <<intensity(light), Zero, Zero>>, ambient |-> TRUE, shadowed |-> FALSE,
              skipped |-> FALSE, called |-> AmbientCalls]
        ELSE aimed(get_direction(light, hit), get_distance(light, hit))

\* The closure of fold: the sums (ambient, specular, diffuse) and one val.
fold_step(acc, val) ==
    CASE Evaluated(val) -> <<FAdd(acc[1], val[1]), FAdd(acc[2], val[2]), FAdd(acc[3], val[3])>>

\* The fold of compute_lighthing over lights[i ..].
RECURSIVE fold_lights(_, _, _, _, _, _, _, _)
fold_lights(acc, i, hit, normal, direction, lights, material, shapes) ==
    IF Evaluated(acc) /\ i > Len(lights) THEN acc
    ELSE fold_lights(fold_step(acc, light_term(lights[i], hit, normal, direction, material,
                                               shapes).val),
                     i + 1, hit, normal, direction, lights, material, shapes)

\* The sums leave as (ambient, diffuse, specular).
reordered(sums) == <<sums[1], sums[3], sums[2]>>

compute_lighthing(hit, normal, direction, lights, material, shapes) ==
    reordered(fold_lights(<<Zero, Zero, Zero>>, 1, hit, normal, direction, lights,
                          material, shapes))

\* calculate_final_color with the ambient term weighted by albedo[0] too.
calculate_final_color_weighted(material, ambient, diffuse, specular, reflect_color, refract_color) ==
    VAdd(VAdd(VAdd(VAdd(
        VMulS(VMulS(material.ambient_color, ambient), material.albedo[1]),
        VMulS(VMulS(material.diffuse_color, diffuse), material.albedo[1])),
        VMulS(VMulS(<<One, One, One>>, specular), material.albedo[2])),
        VMulS(reflect_color, material.albedo[3])),
        VMulS(refract_color, material.albedo[4]))

calculate_final_color(material, ambient, diffuse, specular, reflect_color, refract_color) ==
    VAdd(VAdd(VAdd(VAdd(
        VMulS(material.ambient_color, ambient),
        VMulS(VMulS(material.diffuse_color, diffuse), material.albedo[1])),
        VMulS(VMulS(<<One, One, One>>, specular), material.albedo[2])),
        VMulS(reflect_color, material.albedo[3])),
        VMulS(refract_color, material.albedo[4]))

\* too_deep one level late.
too_deep_one_late(depth) == depth > MAX_DEPTH + 1

\* if depth > MAX_DEPTH
too_deep(depth) == depth > MAX_DEPTH

\* child_depth without the increment.
child_depth_same(depth) == depth

\* The depth handed to a recursive call.
child_depth(depth) == depth + 1

\* The ray of the reflected and of the refracted call, <<origin, direction>>,
\* for the ray `direction` that found r = (hit, normal, material).
aimed_from(ray_direction, r) ==
    <<adjust_ray_origin(ray_direction, r[1], r[2]), ray_direction>>
reflect_ray(direction, r) == aimed_from(normalize(reflect(direction, r[2])), r)
refract_ray(direction, r) ==
    aimed_from(normalize(refract(direction, r[2], r[3].refractive_index)), r)

\* cast_ray for the ray <<origin, direction>>.
RECURSIVE cast(_, _, _, _)

\* cast_ray from the hit (hit, normal, material) on: the two recursive calls,
\* then the lighting, then the final colour.
shade(material, reflect_color, refract_color, sums) ==
    CASE Evaluated(<<reflect_color, refract_color, sums>>) ->
        calculate_final_color(material, sums[1], sums[2], sums[3],
                              reflect_color, refract_color)

cast_ray(origin, direction, shapes, lights, depth) ==
    LET found(o) ==
            IF Evaluated(o) /\ ~IsSome(o) THEN BACKGROUND_COLOR
            ELSE shade(Unwrap(o)[3],
                       cast(reflect_ray(direction, Unwrap(o)), shapes, lights,
                            child_depth(depth)),
                       cast(refract_ray(direction, Unwrap(o)), shapes, lights,
                            child_depth(depth)),
                       compute_lighthing(Unwrap(o)[1], Unwrap(o)[2], direction, lights,
                                         Unwrap(o)[3], shapes))
    IN  IF too_deep(depth) THEN BACKGROUND_COLOR
        ELSE found(scene_intersect(origin, direction, shapes))

cast(ray, shapes, lights, depth) ==
    CASE Evaluated(ray) -> cast_ray(ray[1], ray[2], shapes, lights, depth)

----------------------------------------------------------------------------
(* main.rs: the sequential variant of the engine *)

\* The body of the loop of scene_intersect over shapes:
\* <<closest_distance, hit_point>> before and after one shape.
main_scan_step(acc, shape, origin, direction) ==
    LET closer(distance, hit) ==
            <<distance, Some(<<hit, get_normal(shape, hit), get_material(shape)>>)>>
        tried(dist_i) ==
            IF Evaluated(dist_i) /\ IsSome(dist_i) /\ FLt(Unwrap(dist_i), acc[1])
            THEN closer(Unwrap(dist_i), VAdd(origin, VMulS(direction, Unwrap(dist_i))))
            ELSE acc
    IN  tried(ray_intersect(shape, origin, direction))

\* What follows the loop: nothing beyond the far plane.
main_far_filter(acc) == IF FGt(acc[1], FAR_PLANE) THEN None ELSE acc[2]

RECURSIVE main_scan_from(_, _, _, _, _)
main_scan_from(acc, i, origin, direction, shapes) ==
    IF i > Len(shapes) THEN acc
    ELSE main_scan_from(main_scan_step(acc, shapes[i], origin, direction),
                        i + 1, origin, direction, shapes)

main_scene_intersect(origin, direction, shapes) ==
    main_far_filter(main_scan_from(<<PInf, None>>, 1, origin, direction, shapes))

\* The body of the lighting loop of main.rs cast_ray on the sums (ambient,
\* specular, diffuse): `+=` for a light that counts, `continue` for one that
\* is given up.
main_light_step(acc, term) ==
    IF term.ambient THEN <<FAdd(acc[1], term.val[1]), acc[2], acc[3]>>
    ELSE IF term.skipped THEN acc
    ELSE <<acc[1], FAdd(acc[2], term.val[2]), FAdd(acc[3], term.val[3])>>
----------------------------------------------------------------------------
(* State *)

VARIABLES
    \* scene_intersect, one shape at a time (scene.rs and main.rs side by side)
    si_pc,            \* "off", "scan" or "done"
    si_origin,        \* the ray
    si_direction,
    si_shapes,        \* the shapes scanned
    si_next,          \* the index of the next shape of the iteration
    si_min,           \* scene.rs: the accumulator of min_by, an Option
    si_min_shape,     \* the index of the shape si_min came from (0: none)
    closest_distance, \* main.rs: the locals of the loop
    hit_point,
    main_shape,       \* the index of the shape hit_point came from (0: none)
    si_result,        \* what scene.rs scene_intersect returns
    main_result,      \* what main.rs scene_intersect returns
    \* cast_ray, one call frame per call in progress
    variant,          \* "off", or whose cast_ray runs: "scene" or "main"
    c_shapes,         \* the scene of the call
    c_lights,
    c_root,           \* the call made from outside: [origin, direction, depth]
    stack,            \* the call frames, the running call last
    c_result,         \* what the call from outside returned, an Option
    last_light,       \* the last pass of the lighting loop, an Option
    \* Scene and render_scene
    scene,            \* [shapes, lights]
    phase,            \* "off", "idle", "rendering" or "done"
    frame,            \* the byte buffer, frame[1] its first byte
    height,
    width,
    fov,
    workers,          \* the number of threads of the pool
    pending,          \* the chunk indices no worker has taken yet
    claimed,          \* claimed[w]: the chunk worker w is at, an Option
    written,          \* every write of the call so far: [chunk, byte]
    shaded,           \* shaded[k]: the colour cast_ray returned for chunk k
    skipped,          \* the chunks left by an early return
    prev,             \* the render call before this one, an Option
    renders,          \* the number of render calls so far
    \* One call of one function
    call_fn,           \* "off", "no" before the call, then the function's name
    call_args,             \* the arguments, a record
    call_ret             \* what the call returned

isectVars == <<si_pc, si_origin, si_direction, si_shapes, si_next, si_min, si_min_shape,
               closest_distance, hit_point, main_shape, si_result, main_result>>
castVars == <<variant, c_shapes, c_lights, c_root, stack, c_result, last_light>>
renderVars == <<scene, phase, frame, height, width, fov, workers, pending, claimed,
                written, shaded, skipped, prev, renders>>

callVars == <<call_fn, call_args, call_ret>>

vars == <<isectVars, castVars, renderVars, callVars>>

\* Each of the four parts runs on its own: the other three are off.
IsectOff ==
    /\ si_pc = "off"
    /\ si_origin = ZeroVec
    /\ si_direction = ZeroVec
    /\ si_shapes = << >>
    /\ si_next = 1
    /\ si_min = None
    /\ si_min_shape = 0
    /\ closest_distance = PInf
    /\ hit_point = None
    /\ main_shape = 0
    /\ si_result = None
    /\ main_result = None

CastOff ==
    /\ variant = "off"
    /\ c_shapes = << >>
    /\ c_lights = << >>
    /\ c_root = [origin |-> ZeroVec, direction |-> ZeroVec, depth |-> 0]
    /\ stack = << >>
    /\ c_result = None
    /\ last_light = None

RenderOff ==
    /\ scene = [shapes |-> << >>, lights |-> << >>]
    /\ phase = "off"
    /\ frame = << >>
    /\ height = 0
    /\ width = 0
    /\ fov = Zero
    /\ workers = 0
    /\ pending = {}
    /\ claimed = << >>
    /\ written = {}
    /\ shaded = << >>
    /\ skipped = {}
    /\ prev = None
    /\ renders = 0

CallOff ==
    /\ call_fn = "off"
    /\ call_args = << >>
    /\ call_ret = << >>

\* The sequences over S of length at most n.
RECURSIVE SeqsUpTo(_, _)
SeqsUpTo(S, n) ==
    IF n = 0 THEN {<< >>}
    ELSE SeqsUpTo(S, n - 1)
             \cup {Append(q, x) : q \in {t \in SeqsUpTo(S, n - 1) : Len(t) = n - 1}, x \in S}

\* The camera of render_scene.
CAMERA == Vec3(0, 0, 2000)

----------------------------------------------------------------------------
(* scene_intersect as a loop over the shapes *)

\* The longest shape list given to the scan.
MaxIsectShapes == 2

\* The shapes the scan draws from.  Sphere::new and InfinityPlane::new take
\* any f64: a centre that is NaN makes every distance NaN, a plane at
\* infinity is hit at +infinity.  The three far planes are hit from the
\* camera, looking down -z, at 999.999, 1000 and 1000.001.
NearSphere == Sphere_new(Vec3(0, 0, -5000), Mil(2000), RED_MATERIAL)
FarSphere == Sphere_new(Vec3(0, 0, -8000), Mil(1000), GREEN_MATERIAL)
NearBox == BoxShape_new(Vec3(1000, 1000, -3000), Vec3(-1000, -1000, -4000), GOLD_MATERIAL)
NaNSphere == Sphere_new(<<NaN, Zero, Zero>>, One, BLUE_MATERIAL)
InfPlane == InfinityPlane_new(<<Zero, Zero, NInf>>, Vec3(0, 0, 1000), MIRROR_MATERIAL)
PlaneInside == InfinityPlane_new(Vec3(0, 0, -997999), Vec3(0, 0, 1000), GLASS_MATERIAL)
PlaneAtFar == InfinityPlane_new(Vec3(0, 0, -998000), Vec3(0, 0, 1000), GLASS_MATERIAL)
PlaneBeyond == InfinityPlane_new(Vec3(0, 0, -998001), Vec3(0, 0, 1000), GLASS_MATERIAL)

IsectShapes ==
    {NearSphere, FarSphere, NearBox, NaNSphere, InfPlane, PlaneInside, PlaneAtFar, PlaneBeyond}

\* The rays: from the camera down -z and slightly off it, upwards (a miss of
\* every shape but the NaN sphere) and the ray cast_ray makes of the zero
\* vector refract returns: its direction, normalized, is NaN.
IsectRays ==
    {<<CAMERA, Vec3(0, 0, -1000)>>,
     <<CAMERA, normalize(Vec3(100, 0, -1000))>>,
     <<CAMERA, Vec3(0, 1000, 0)>>,
     <<Vec3(0, 0, -2999), normalize(ZeroVec)>>}

InitIsect ==
    /\ si_pc = "scan"
    /\ \E ray \in IsectRays : si_origin = ray[1] /\ si_direction = ray[2]
    /\ si_shapes \in SeqsUpTo(IsectShapes, MaxIsectShapes)
    /\ si_next = 1
    /\ si_min = None
    /\ si_min_shape = 0
    /\ closest_distance = PInf
    /\ hit_point = None
    /\ main_shape = 0
    /\ si_result = None
    /\ main_result = None
    /\ CastOff
    /\ RenderOff
    /\ CallOff

\* The shape at si_next is not hit: filter_map drops it, the loop of main.rs
\* skips it.
SiScanMiss ==
    /\ si_pc = "scan"
    /\ si_next <= Len(si_shapes)
    /\ ~IsSome(ray_intersect(si_shapes[si_next], si_origin, si_direction))
    /\ si_next' = si_next + 1
    /\ UNCHANGED <<si_pc, si_origin, si_direction, si_shapes, si_min, si_min_shape,
                   closest_distance, hit_point, main_shape, si_result, main_result>>
    /\ UNCHANGED <<castVars, renderVars, callVars>>

\* The shape at si_next is hit: min_by compares it with its accumulator, the
\* loop of main.rs with closest_distance.
SiScanHit ==
    /\ si_pc = "scan"
    /\ si_next <= Len(si_shapes)
    /\ IsSome(ray_intersect(si_shapes[si_next], si_origin, si_direction))
    /\ si_min' = min_by_next(si_min, hit_of(si_shapes[si_next], si_origin, si_direction))
    /\ si_min_shape' = IF si_min' = si_min THEN si_min_shape ELSE si_next
    /\ closest_distance' =
           main_scan_step(<<closest_distance, hit_point>>, si_shapes[si_next],
                          si_origin, si_direction)[1]
    /\ hit_point' =
           main_scan_step(<<closest_distance, hit_point>>, si_shapes[si_next],
                          si_origin, si_direction)[2]
    /\ main_shape' = IF hit_point' = hit_point THEN main_shape ELSE si_next
    /\ si_next' = si_next + 1
    /\ UNCHANGED <<si_pc, si_origin, si_direction, si_shapes, si_result, main_result>>
    /\ UNCHANGED <<castVars, renderVars, callVars>>

\* The iteration is over: the far-plane test of each variant.
SiFinish ==
    /\ si_pc = "scan"
    /\ si_next > Len(si_shapes)
    /\ si_result' = far_filter(si_min)
    /\ main_result' = main_far_filter(<<closest_distance, hit_point>>)
    /\ si_pc' = "done"
    /\ UNCHANGED <<si_origin, si_direction, si_shapes, si_next, si_min, si_min_shape,
                   closest_distance, hit_point, main_shape>>
    /\ UNCHANGED <<castVars, renderVars, callVars>>

NextIsect == SiScanMiss \/ SiScanHit \/ SiFinish

SpecIntersect == InitIsect /\ [][NextIsect]_vars

\* The shapes of si_shapes the ray hits, and the distance of each.
Hits ==
    {i \in 1 .. Len(si_shapes) :
        IsSome(ray_intersect(si_shapes[i], si_origin, si_direction))}
Distance(i) == Unwrap(ray_intersect(si_shapes[i], si_origin, si_direction))

\* The order of the distances: a before b.  NaN comes after everything else.
OrderedBefore(a, b) == IF IsNaN(a) THEN FALSE ELSE IF IsNaN(b) THEN TRUE ELSE FLt(a, b)

\* What a hit of shape i at its distance returns.
HitAt(i) == VAdd(si_origin, VMulS(si_direction, Distance(i)))
TripleOf(i) == <<HitAt(i), get_normal(si_shapes[i], HitAt(i)), get_material(si_shapes[i])>>

\* C9: when the scan is over every shape has been scanned; if any shape is
\* hit, the selected shape is one of those hit and no hit has a distance
\* ordered before the selected one's (NaN after every other distance, +inf
\* included), and the hit point, normal and material kept and returned are
\* those of the selected shape.
C9_NearestHitSelected ==
    si_pc = "done" =>
        /\ si_next = Len(si_shapes) + 1
        /\ Hits = {} => si_min_shape = 0 /\ si_min = None /\ si_result = None
        /\ Hits # {} =>
            /\ si_min_shape \in Hits
            /\ \A j \in Hits : ~OrderedBefore(Distance(j), Distance(si_min_shape))
            /\ si_min = Some(<<Distance(si_min_shape), TripleOf(si_min_shape)>>)
            /\ IsSome(si_result) => Unwrap(si_result) = TripleOf(si_min_shape)

\* A scan that met a NaN hit first and a hit at a number after it, and
\* returned the second.
C9_Witness ==
    /\ si_pc = "done"
    /\ Len(si_shapes) = 2
    /\ Hits = {1, 2}
    /\ IsNaN(Distance(1))
    /\ IsFin(Distance(2))
    /\ si_min_shape = 2
    /\ IsSome(si_result)

\* C10: scene_intersect returns nothing exactly when no shape is hit or the
\* nearest hit is beyond 1000; a nearest hit at 1000 or less, 1000 itself
\* included, is returned.  Stated for a nearest distance that is a number.
C10_FarPlane ==
    (si_pc = "done" /\ (si_min # None => ~IsNaN(Unwrap(si_min)[1]))) =>
        /\ si_result = None <=> (si_min = None \/ FGt(Unwrap(si_min)[1], FAR_PLANE))
        /\ (si_min # None /\ FLe(Unwrap(si_min)[1], FAR_PLANE)) =>
               si_result = Some(Unwrap(si_min)[2])

\* The shapes hit at the smallest distance, and the first of them.
Nearest == {i \in Hits : \A j \in Hits : ~OrderedBefore(Distance(j), Distance(i))}
FirstNearest == CHOOSE i \in Nearest : \A j \in Nearest : i <= j

\* C20: when two or more shapes are hit at the same smallest distance, a
\* number, the scan of scene.rs selects the first of them in the order of
\* the collection and so does the loop of main.rs, and a hit that either
\* returns is the hit of that shape.
C20_FirstOfTies ==
    (/\ si_pc = "done"
     /\ Cardinality(Nearest) >= 2
     /\ \A i \in Nearest : IsFin(Distance(i))) =>
        /\ si_min_shape = FirstNearest
        /\ main_shape = FirstNearest
        /\ IsSome(si_result) => si_result = Some(TripleOf(FirstNearest))
        /\ IsSome(main_result) => main_result = Some(TripleOf(FirstNearest))

\* A box and a sphere behind it in the collection are hit at the same
\* distance, and the hit returned is the box's.
C20_Witness ==
    /\ si_pc = "done"
    /\ si_shapes = <<NearBox, NearSphere>>
    /\ Nearest = {1, 2}
    /\ Distance(1) = Mil(5000)
    /\ si_result = Some(TripleOf(1))
    /\ main_result = si_result
    /\ TripleOf(1) # TripleOf(2)

----------------------------------------------------------------------------
(* cast_ray as call frames: one step per statement that calls or returns *)

\* The frame of a call of cast_ray: its arguments, where it stands (pc) and
\* its locals.  children counts the recursive calls it has made.
call_frame(ray, depth) ==
    [origin |-> ray[1], direction |-> ray[2], depth |-> depth, pc |-> "enter",
     found |-> None, reflect_color |-> ZeroVec, refract_color |-> ZeroVec,
     sums |-> <<Zero, Zero, Zero>>, next_light |-> 1, children |-> 0, value |-> ZeroVec]

Top(s) == s[Len(s)]
WithTop(s, f) == [s EXCEPT ![Len(s)] = f]

\* return value;
returned(f, value) == [f EXCEPT !.pc = "ret", !.value = value]

\* scene.rs cast_ray up to its first recursive call: the depth test, then
\* scene_intersect.
scene_entered(f, o) ==
    IF IsSome(o) THEN [f EXCEPT !.pc = "reflect", !.found = o]
    ELSE returned(f, BACKGROUND_COLOR)
scene_enter(f, shapes) ==
    IF too_deep(f.depth) THEN returned(f, BACKGROUND_COLOR)
    ELSE scene_entered(f, scene_intersect(f.origin, f.direction, shapes))

\* main.rs cast_ray up to its first recursive call: scene_intersect, then
\* the depth test.
main_entered(f, o) ==
    IF ~IsSome(o) THEN returned(f, BACKGROUND_COLOR)
    ELSE IF too_deep(f.depth) THEN returned([f EXCEPT !.found = o], BACKGROUND_COLOR)
    ELSE [f EXCEPT !.pc = "reflect", !.found = o]
main_enter(f, shapes) ==
    main_entered(f, main_scene_intersect(f.origin, f.direction, shapes))

\* The caller once the call it waits for has returned value.
resumed(f, value) ==
    IF f.pc = "reflected" THEN [f EXCEPT !.pc = "refract", !.reflect_color = value]
    ELSE [f EXCEPT !.pc = "light", !.refract_color = value]

\* One pass of the lighting loop, for the light `light` with the result term
\* of light_term: the frame after it and what the pass did.
light_pass(f, light, term, v) ==
    [frame |-> [f EXCEPT !.sums = IF v = "scene" THEN fold_step(f.sums, term.val)
                                  ELSE main_light_step(f.sums, term),
                         !.next_light = @ + 1],
     light |-> light, shadowed |-> term.shadowed, called |-> term.called]
pass_log(f, pass) ==
    [light |-> pass.light, hit |-> Unwrap(f.found)[1], normal |-> Unwrap(f.found)[2],
     before |-> f.sums, after |-> pass.frame.sums, shadowed |-> pass.shadowed,
     called |-> pass.called]

\* The scenes and rays of the calls.  A sphere lit by an ambient light, a
\* point light behind a small sphere and a directional light; two mirrors
\* facing each other with the camera between them.
ShadowShapes ==
    <<Sphere_new(Vec3(0, 0, -5000), Mil(2000), RED_MATERIAL),
      Sphere_new(Vec3(1500, 0, -1500), Mil(500), GREEN_MATERIAL)>>
ShadowLights ==
    <<AmbientLight_new(Mil(200)),
      PointLight_new(Mil(800), Vec3(3000, 0, 0)),
      DirectionalLight_new(Mil(500), normalize(Vec3(-1000, 1000, 1000)))>>
HallShapes ==
    <<InfinityPlane_new(Vec3(0, 0, -3000), Vec3(0, 0, 1000), MIRROR_MATERIAL),
      InfinityPlane_new(Vec3(0, 0, 5000), Vec3(0, 0, -1000), MIRROR_MATERIAL)>>
HallLights ==
    <<PointLight_new(Mil(1500), Vec3(0, 1000, 1000)), AmbientLight_new(Mil(100))>>

\* A red sphere under one ambient light of 0.1, seen at its centre; a pane of
\* glass under the same light, seen at 45 degrees.
RedShapes == <<Sphere_new(Vec3(0, 0, -5000), Mil(2000), RED_MATERIAL)>>
RedLights == <<AmbientLight_new(Mil(100))>>
PaneShapes == <<InfinityPlane_new(Vec3(0, 0, -3000), Vec3(0, 0, 1000), GLASS_MATERIAL)>>
Slanted == normalize(Vec3(1000, 0, -1000))

CastScenes ==
    {[shapes |-> ShadowShapes, lights |-> ShadowLights, direction |-> Vec3(0, 0, -1000)],
     [shapes |-> HallShapes, lights |-> HallLights, direction |-> Vec3(0, 0, -1000)],
     [shapes |-> RedShapes, lights |-> RedLights, direction |-> Vec3(0, 0, -1000)],
     [shapes |-> PaneShapes, lights |-> RedLights, direction |-> Slanted],
     [shapes |-> << >>, lights |-> << >>, direction |-> Vec3(0, 0, -1000)]}

\* The depths of the call from outside: render_scene's 0, the last depth
\* that shades, and two that are too deep.
RootDepths == {0, MAX_DEPTH, MAX_DEPTH + 1, MAX_DEPTH + 2}

InitCast ==
    /\ variant \in {"scene", "main"}
    /\ \E sc \in CastScenes, d \in RootDepths :
          /\ c_shapes = sc.shapes
          /\ c_lights = sc.lights
          /\ c_root = [origin |-> CAMERA, direction |-> sc.direction, depth |-> d]
          /\ stack = <<call_frame(<<CAMERA, sc.direction>>, d)>>
    /\ c_result = None
    /\ last_light = None
    /\ IsectOff
    /\ RenderOff
    /\ CallOff

\* The running call goes from its entry to its first recursive call or to
\* an early return.
CastEnter ==
    /\ stack # << >>
    /\ Top(stack).pc = "enter"
    /\ stack' = WithTop(stack, IF variant = "scene" THEN scene_enter(Top(stack), c_shapes)
                               ELSE main_enter(Top(stack), c_shapes))
    /\ UNCHANGED <<variant, c_shapes, c_lights, c_root, c_result, last_light>>
    /\ UNCHANGED <<isectVars, renderVars, callVars>>

\* let reflect_color = cast_ray(reflect_origin, reflect_direction, .., depth + 1)
CastReflect ==
    /\ stack # << >>
    /\ Top(stack).pc = "reflect"
    /\ stack' = Append(WithTop(stack, [Top(stack) EXCEPT !.pc = "reflected",
                                                         !.children = @ + 1]),
                       call_frame(reflect_ray(Top(stack).direction, Unwrap(Top(stack).found)),
                                  child_depth(Top(stack).depth)))
    /\ UNCHANGED <<variant, c_shapes, c_lights, c_root, c_result, last_light>>
    /\ UNCHANGED <<isectVars, renderVars, callVars>>

\* let refract_color = cast_ray(refract_origin, refract_direction, .., depth + 1)
CastRefract ==
    /\ stack # << >>
    /\ Top(stack).pc = "refract"
    /\ stack' = Append(WithTop(stack, [Top(stack) EXCEPT !.pc = "refracted",
                                                         !.children = @ + 1]),
                       call_frame(refract_ray(Top(stack).direction, Unwrap(Top(stack).found)),
                                  child_depth(Top(stack).depth)))
    /\ UNCHANGED <<variant, c_shapes, c_lights, c_root, c_result, last_light>>
    /\ UNCHANGED <<isectVars, renderVars, callVars>>

\* A recursive call returns into its caller.
CastReturn ==
    /\ Len(stack) > 1
    /\ Top(stack).pc = "ret"
    /\ stack' = WithTop(SubSeq(stack, 1, Len(stack) - 1),
                        resumed(stack[Len(stack) - 1], Top(stack).value))
    /\ UNCHANGED <<variant, c_shapes, c_lights, c_root, c_result, last_light>>
    /\ UNCHANGED <<isectVars, renderVars, callVars>>

\* One pass of the lighting loop.
CastLight ==
    /\ stack # << >>
    /\ Top(stack).pc = "light"
    /\ Top(stack).next_light <= Len(c_lights)
    /\ \E pass \in {light_pass(Top(stack), c_lights[Top(stack).next_light],
                               light_term(c_lights[Top(stack).next_light],
                                          Unwrap(Top(stack).found)[1],
                                          Unwrap(Top(stack).found)[2],
                                          Top(stack).direction,
                                          Unwrap(Top(stack).found)[3], c_shapes),
                               variant)} :
          /\ stack' = WithTop(stack, pass.frame)
          /\ last_light' = Some(pass_log(Top(stack), pass))
    /\ UNCHANGED <<variant, c_shapes, c_lights, c_root, c_result>>
    /\ UNCHANGED <<isectVars, renderVars, callVars>>

\* The lights are through: calculate_final_color and return.
CastShade ==
    /\ stack # << >>
    /\ Top(stack).pc = "light"
    /\ Top(stack).next_light > Len(c_lights)
    /\ stack' = WithTop(stack, returned(Top(stack),
                                        shade(Unwrap(Top(stack).found)[3],
                                              Top(stack).reflect_color,
                                              Top(stack).refract_color,
                                              reordered(Top(stack).sums))))
    /\ UNCHANGED <<variant, c_shapes, c_lights, c_root, c_result, last_light>>
    /\ UNCHANGED <<isectVars, renderVars, callVars>>

\* The call from outside returns.
CastDone ==
    /\ Len(stack) = 1
    /\ Top(stack).pc = "ret"
    /\ c_result' = Some(Top(stack).value)
    /\ stack' = << >>
    /\ UNCHANGED <<variant, c_shapes, c_lights, c_root, last_light>>
    /\ UNCHANGED <<isectVars, renderVars, callVars>>

NextCast ==
    CastEnter \/ CastReflect \/ CastRefract \/ CastReturn \/ CastLight \/ CastShade
        \/ CastDone

SpecCast == InitCast /\ [][NextCast]_vars

\* C1: a call of cast_ray with a depth above 4 makes no recursive call and
\* never reaches the statements after the depth test, and what it returns is
\* BACKGROUND_COLOR, whatever the scene and whether its ray hits or not.
C1_TooDeepIsBackground ==
    /\ \A i \in 1 .. Len(stack) :
          stack[i].depth > 4 =>
              /\ i = Len(stack)
              /\ stack[i].pc \in {"enter", "ret"}
              /\ stack[i].children = 0
              /\ stack[i].pc = "ret" => stack[i].value = BACKGROUND_COLOR
    /\ (c_root.depth > 4 /\ IsSome(c_result)) => Unwrap(c_result) = BACKGROUND_COLOR

\* A call at a depth above 4 whose ray hits a shape of a lit scene has
\* returned.
C1_Witness ==
    /\ stack # << >>
    /\ Top(stack).depth > 4
    /\ Top(stack).pc = "ret"
    /\ c_lights # << >>
    /\ IsSome(scene_intersect(Top(stack).origin, Top(stack).direction, c_shapes))

\* The calls in progress of a call started at depth 0: the i-th nested call
\* has depth i - 1, none has a depth above MAX_DEPTH + 1, each has made at
\* most two recursive calls, and only depths 0 .. 4 are past the depth test.
C2_Nesting ==
    c_root.depth = 0 =>
        /\ Len(stack) <= 6
        /\ \A i \in 1 .. Len(stack) :
              /\ stack[i].depth = i - 1
              /\ stack[i].depth <= 5
              /\ stack[i].children <= 2
              /\ stack[i].pc \notin {"enter", "ret"} => stack[i].depth <= 4

\* The most steps a call at depth d can take, from its entry to its return
\* included: two when it is too deep, else its entry, two calls with all
\* their steps, one pass per light, the final colour and the return.
RECURSIVE StepsOfCall(_)
StepsOfCall(d) ==
    IF d > 4 THEN 2 ELSE 5 + Len(c_lights) + 2 * StepsOfCall(d + 1)

\* The most steps the frame f has left, those of the calls it has yet to
\* make included.
StepsLeft(f) ==
    CASE f.pc = "enter" -> StepsOfCall(f.depth)
      [] f.pc = "reflect" -> StepsOfCall(f.depth) - 1
      [] f.pc = "reflected" -> 3 + Len(c_lights) + StepsOfCall(f.depth + 1)
      [] f.pc = "refract" -> 3 + Len(c_lights) + StepsOfCall(f.depth + 1)
      [] f.pc = "refracted" -> 2 + Len(c_lights)
      [] f.pc = "light" -> 2 + Len(c_lights) + 1 - f.next_light
      [] f.pc = "ret" -> 1

RECURSIVE StepsLeftFrom(_, _)
StepsLeftFrom(s, i) == IF i > Len(s) THEN 0 ELSE StepsLeft(s[i]) + StepsLeftFrom(s, i + 1)

\* C2: every call of cast_ray started at depth 0 returns: while it has not,
\* its nested calls stay within C2_Nesting, the running call is at a
\* statement it can execute, and every step leaves fewer steps to take than
\* the step before it, none ever below zero.
C2_BoundedRecursion ==
    /\ []C2_Nesting
    /\ [](c_root.depth = 0 =>
            /\ StepsLeftFrom(stack, 1) >= 0
            /\ stack = << >> => IsSome(c_result)
            /\ stack # << >> =>
                  \/ Top(stack).pc \in {"enter", "reflect", "refract", "light"}
                  \/ Top(stack).pc = "ret")
    /\ [][c_root.depth = 0 => StepsLeftFrom(stack', 1) < StepsLeftFrom(stack, 1)]_vars

\* A call started at depth 0 has nested calls down to depth 5, and the
\* deepest has returned.
C2_Witness ==
    /\ c_root.depth = 0
    /\ Len(stack) = 6
    /\ Top(stack).depth = 5
    /\ Top(stack).pc = "ret"

\* C7: a pass of the lighting loop for a light that is not ambient and that
\* is_in_shadow reported shadowed leaves the three sums as they were.
C7_ShadowedAddsNothing ==
    (/\ IsSome(last_light)
     /\ Unwrap(last_light).light.type # "Ambient"
     /\ Unwrap(last_light).shadowed)
        => Unwrap(last_light).after = Unwrap(last_light).before

\* A pass for a shadowed point light that faces the surface, so that it
\* would have added to the diffuse sum.
C7_Witness ==
    /\ IsSome(last_light)
    /\ Unwrap(last_light).light.type = "Point"
    /\ Unwrap(last_light).shadowed
    /\ FGt(Unwrap(last_light).light.intensity, Zero)
    /\ FGt(VDot(get_direction(Unwrap(last_light).light, Unwrap(last_light).hit),
                Unwrap(last_light).normal), Zero)

\* The calls of a pass that are about the direction of the light.
DirectionCalls == {"get_direction", "get_distance", "is_in_shadow"}

\* C8: a pass for an ambient light adds the light's intensity to the ambient
\* sum and leaves the other two sums alone, without get_direction,
\* get_distance or a shadow ray; a pass for any other light leaves the
\* ambient sum alone.
C8_AmbientOnly ==
    IsSome(last_light) =>
        IF Unwrap(last_light).light.type = "Ambient"
        THEN /\ Unwrap(last_light).after =
                    <<FAdd(Unwrap(last_light).before[1], Unwrap(last_light).light.intensity),
                      Unwrap(last_light).before[2], Unwrap(last_light).before[3]>>
             /\ Unwrap(last_light).called \cap DirectionCalls = {}
        ELSE Unwrap(last_light).after[1] = Unwrap(last_light).before[1]

\* A pass for an ambient light that comes after other lights have added to
\* the diffuse sum.
C8_Witness ==
    /\ IsSome(last_light)
    /\ Unwrap(last_light).light.type = "Ambient"
    /\ FGt(Unwrap(last_light).light.intensity, Zero)
    /\ FGt(Unwrap(last_light).before[3], Zero)
    /\ Unwrap(last_light).after # Unwrap(last_light).before


\* The call from outside, at depth 0 on the red sphere, at its return.
RedReturn ==
    /\ c_shapes = RedShapes
    /\ c_lights = RedLights
    /\ c_root.depth = 0
    /\ Len(stack) = 1
    /\ Top(stack).pc = "ret"
    /\ IsSome(Top(stack).found)

\* ambient_color * 0.1 of the red material, weighted by albedo[0].
RedWeighted == VMulS(VMulS(RED_MATERIAL.ambient_color, Mil(100)), RED_MATERIAL.albedo[1])

\* C14 as stated: on the red sphere under one ambient light of 0.1 the
\* diffuse and specular sums are zero, red is above green and blue, and the
\* colour approximates ambient_color * 0.1 weighted by albedo[0]: no channel
\* is further from it than its own size.
C14_AsStated ==
    RedReturn =>
        /\ Top(stack).sums[2] = Zero /\ Top(stack).sums[3] = Zero
        /\ FGt(Top(stack).value[1], Top(stack).value[2])
        /\ FGt(Top(stack).value[1], Top(stack).value[3])
        /\ \A n \in 1 .. 3 :
              FLe(FAbs(FSub(Top(stack).value[n], RedWeighted[n])), RedWeighted[n])

\* C14, amended: on the red sphere under one ambient light of 0.1 the
\* diffuse and specular sums are zero, red is above green and blue, and the
\* colour is ambient_color * 0.1, without the weight albedo[0], plus the
\* colour of the refracted ray weighted by albedo[3].
C14_AmbientPlusRefracted ==
    RedReturn =>
        /\ Top(stack).sums[2] = Zero /\ Top(stack).sums[3] = Zero
        /\ FGt(Top(stack).value[1], Top(stack).value[2])
        /\ FGt(Top(stack).value[1], Top(stack).value[3])
        /\ Top(stack).value =
              VAdd(VMulS(RED_MATERIAL.ambient_color, Mil(100)),
                   VMulS(Top(stack).refract_color, RED_MATERIAL.albedo[4]))

\* The call on the red sphere has returned, with a refracted ray that
\* brought a colour back.
C14_Witness ==
    /\ RedReturn
    /\ Top(stack).sums[1] = Mil(100)
    /\ Top(stack).refract_color # ZeroVec
    /\ Top(stack).value # ZeroVec

\* Whether the call of frame f, past its call of refract, met total internal
\* reflection there: k < 0.
TotalReflection(f) ==
    /\ IsSome(f.found)
    /\ f.pc \in {"light", "ret"}
    /\ FLt(refract_k(f.direction, Unwrap(f.found)[2], Unwrap(f.found)[3].refractive_index),
           Zero)

\* C16: when refract meets total internal reflection it returns the zero
\* vector, and the refracted ray cast_ray then traces brings back the zero
\* colour: the refract_color of that hit is (0, 0, 0).
C16_AbsorbedRefraction ==
    \A i \in 1 .. Len(stack) :
        TotalReflection(stack[i]) =>
            /\ refract(stack[i].direction, Unwrap(stack[i].found)[2],
                       Unwrap(stack[i].found)[3].refractive_index) = ZeroVec
            /\ stack[i].refract_color = ZeroVec

----------------------------------------------------------------------------
(* Scene: push_shape, push_light and render_scene on a pool of workers *)

\* The bounds of the render calls.
MaxWidth == 2
MaxHeight == 2
MaxWorkers == 2
MaxRenders == 2
MaxPushes == 1

\* The field of view of main.rs, let fov: f64 = PI / 3.0, and its
\* (fov / 2.0).tan().
ThirdPi == Fl(1047198)
Fovs == {ThirdPi}
tan_half(f) == CASE f = ThirdPi -> Fl(577350)

\* What the buffer holds before a render call: every byte the same.
Fills == {0, 77}

\* The scene before the first call, and what push_shape and push_light add.
Floor == InfinityPlane_new(Vec3(0, -1000, 0), Vec3(0, 1000, 0), GOLD_MATERIAL)
Ball == Sphere_new(Vec3(-1500, 1500, -1000), Mil(500), RED_MATERIAL)
FirstScene ==
    [shapes |-> <<Floor>>,
     lights |-> <<AmbientLight_new(Mil(100)), PointLight_new(Mil(1000), Vec3(2000, 3000, 0))>>]
MoreShapes == {Ball}
MoreLights == {DirectionalLight_new(Mil(500), normalize(Vec3(-1000, 1000, 1000)))}
Pushed ==
    (Len(scene.shapes) - Len(FirstScene.shapes)) + (Len(scene.lights) - Len(FirstScene.lights))

\* f64::from(n) for a u32.
f64_from(n) == Fl(n * SCALE)

\* u32::try_from(n) for a usize: an Option in place of the Result.
u32_try_from(n) == IF n \div 65536 < 65536 THEN Some(n) ELSE None

\* let i_usize = index % (width as usize);
i_usize(index, w) == index % w

\* i_usize as the row.
j_usize_as_column(index, w) == index % w

\* let j_usize = index / (width as usize);
j_usize(index, w) == index \div w

\* let x = (2.0 * (f64::from(i) + 0.5) / f64::from(width) - 1.0)
\*     * fov_tan * f64::from(width) / f64::from(height);
pixel_x(i, w, h, fov_tan) ==
    FDiv(FMul(FMul(FSub(FDiv(FMul(Mil(2000), FAdd(f64_from(i), Mil(500))), f64_from(w)),
                        One),
                   fov_tan),
              f64_from(w)),
         f64_from(h))

\* let y = -(2.0 * (f64::from(j) + 0.5) / f64::from(height) - 1.0) * fov_tan;
pixel_y(j, h, fov_tan) ==
    FMul(FNeg(FSub(FDiv(FMul(Mil(2000), FAdd(f64_from(j), Mil(500))), f64_from(h)), One)),
         fov_tan)

\* let dir = Vec3f::new_with_data([x, y, -1.0]).normalize(None);
pixel_dir(i, j, w, h, fov_tan) ==
    normalize(new_with_data(pixel_x(i, w, h, fov_tan), pixel_y(j, h, fov_tan), FNeg(One)))

\* pixel_bytes without the alpha byte.
pixel_bytes_rgb(pixel, color) ==
    [pixel EXCEPT ![1] = to_u8(color[1]), ![2] = to_u8(color[2]), ![3] = to_u8(color[3])]

\* pixel_bytes for a pixel that shows the background only: left as it is.
pixel_bytes_sparse(pixel, color) ==
    IF color = BACKGROUND_COLOR THEN pixel
    ELSE [pixel EXCEPT ![1] = to_u8(color[1]), ![2] = to_u8(color[2]),
                       ![3] = to_u8(color[3]), ![4] = 255]

\* pixel[0] = to_u8(color[0]); .. pixel[3] = 255;
pixel_bytes(pixel, color) ==
    [pixel EXCEPT ![1] = to_u8(color[1]), ![2] = to_u8(color[2]), ![3] = to_u8(color[3]),
                  ![4] = 255]

\* par_chunks_mut(4).enumerate(): the indices of the chunks of a buffer and
\* the bytes of chunk k.
chunk_indices(buffer) == 0 .. ((Len(buffer) + 3) \div 4) - 1
chunk_bytes(buffer, k) ==
    {b \in 1 .. Len(buffer) : 4 * k + 1 <= b /\ b <= 4 * k + 4}
chunk_of(buffer, k) == [n \in 1 .. Cardinality(chunk_bytes(buffer, k)) |-> buffer[4 * k + n]]
with_chunk(buffer, k, pixel) ==
    [b \in 1 .. Len(buffer) |-> IF b \in chunk_bytes(buffer, k) THEN pixel[b - 4 * k]
                                ELSE buffer[b]]

\* &mut self with a shared borrow of a render call alive.
borrow_mut_always(ph) == TRUE

\* Whether &mut self can be borrowed: not while render_scene holds &self.
borrow_mut(ph) == ph # "rendering"

InitRender ==
    /\ scene = FirstScene
    /\ phase = "idle"
    /\ frame = << >>
    /\ height = 0
    /\ width = 0
    /\ fov = Zero
    /\ workers = 0
    /\ pending = {}
    /\ claimed = << >>
    /\ written = {}
    /\ shaded = << >>
    /\ skipped = {}
    /\ prev = None
    /\ renders = 0
    /\ IsectOff
    /\ CastOff
    /\ CallOff

\* pub fn push_shape(&mut self, shape: ShapeType)
\* The buffer of an earlier render call is no longer a picture of the scene.
PushShape(shape) ==
    /\ phase # "off"
    /\ borrow_mut(phase)
    /\ Pushed < MaxPushes
    /\ scene' = [scene EXCEPT !.shapes = Append(@, shape)]
    /\ phase' = "idle"
    /\ UNCHANGED <<frame, height, width, fov, workers, pending, claimed, written,
                   shaded, skipped, prev, renders>>
    /\ UNCHANGED <<isectVars, castVars, callVars>>

\* pub fn push_light(&mut self, light: LightType)
\* The buffer of an earlier render call is no longer a picture of the scene.
PushLight(light) ==
    /\ phase # "off"
    /\ borrow_mut(phase)
    /\ Pushed < MaxPushes
    /\ scene' = [scene EXCEPT !.lights = Append(@, light)]
    /\ phase' = "idle"
    /\ UNCHANGED <<frame, height, width, fov, workers, pending, claimed, written,
                   shaded, skipped, prev, renders>>
    /\ UNCHANGED <<isectVars, castVars, callVars>>

\* render_scene is called with a buffer of h * w * 4 bytes, on a pool of n
\* threads: the chunks are there to be taken.
RenderStart(h, w, f, n, fill) ==
    /\ phase \in {"idle", "done"}
    /\ renders < MaxRenders
    /\ prev' = IF phase = "done"
               THEN Some([scene |-> scene, height |-> height, width |-> width, fov |-> fov,
                          workers |-> workers, frame |-> frame])
               ELSE prev
    /\ phase' = "rendering"
    /\ frame' = [b \in 1 .. h * w * 4 |-> fill]
    /\ height' = h
    /\ width' = w
    /\ fov' = f
    /\ workers' = n
    /\ pending' = chunk_indices(frame')
    /\ claimed' = [t \in 1 .. n |-> None]
    /\ written' = {}
    /\ shaded' = [k \in 1 .. Cardinality(chunk_indices(frame')) |-> None]
    /\ skipped' = {}
    /\ renders' = renders + 1
    /\ UNCHANGED scene
    /\ UNCHANGED <<isectVars, castVars, callVars>>

\* A thread of the pool that is free takes a chunk.
WorkerTake(t, k) ==
    /\ phase = "rendering"
    /\ claimed[t] = None
    /\ k \in pending
    /\ pending' = pending \ {k}
    /\ claimed' = [claimed EXCEPT ![t] = Some(k)]
    /\ UNCHANGED <<scene, phase, frame, height, width, fov, workers, written, shaded,
                   skipped, prev, renders>>
    /\ UNCHANGED <<isectVars, castVars, callVars>>

\* The closure of for_each on the chunk a thread has taken.
WorkerRun(t) ==
    /\ phase = "rendering"
    /\ claimed[t] # None
    /\ \E index \in {Unwrap(claimed[t])} :
          IF \/ ~IsSome(u32_try_from(i_usize(index, width)))
             \/ ~IsSome(u32_try_from(j_usize(index, width)))
          THEN /\ skipped' = skipped \cup {index}
               /\ UNCHANGED <<frame, written, shaded>>
          ELSE \E color \in {cast_ray(CAMERA,
                                      pixel_dir(Unwrap(u32_try_from(i_usize(index, width))),
                                                Unwrap(u32_try_from(j_usize(index, width))),
                                                width, height, tan_half(fov)),
                                      scene.shapes, scene.lights, 0)} :
                  /\ frame' = with_chunk(frame, index,
                                         pixel_bytes(chunk_of(frame, index), color))
                  /\ written' = written \cup
                        {[chunk |-> index, byte |-> b] :
                            b \in chunk_bytes(frame, index)}
                  /\ shaded' = [shaded EXCEPT ![index + 1] = Some(color)]
                  /\ UNCHANGED skipped
    /\ claimed' = [claimed EXCEPT ![t] = None]
    /\ UNCHANGED <<scene, phase, height, width, fov, workers, pending, prev, renders>>
    /\ UNCHANGED <<isectVars, castVars, callVars>>

\* for_each returns once every chunk has been through the closure.
RenderFinish ==
    /\ phase = "rendering"
    /\ pending = {}
    /\ \A t \in 1 .. workers : claimed[t] = None
    /\ phase' = "done"
    /\ UNCHANGED <<scene, frame, height, width, fov, workers, pending, claimed, written,
                   shaded, skipped, prev, renders>>
    /\ UNCHANGED <<isectVars, castVars, callVars>>

Next ==
    \/ \E shape \in MoreShapes : PushShape(shape)
    \/ \E light \in MoreLights : PushLight(light)
    \/ \E h \in 1 .. MaxHeight, w \in 1 .. MaxWidth, f \in Fovs, n \in 1 .. MaxWorkers,
          fill \in Fills : RenderStart(h, w, f, n, fill)
    \/ \E t \in 1 .. MaxWorkers, k \in 0 .. MaxHeight * MaxWidth - 1 :
          t <= workers /\ WorkerTake(t, k)
    \/ \E t \in 1 .. MaxWorkers : t <= workers /\ WorkerRun(t)
    \/ RenderFinish

Init == InitRender

Spec == Init /\ [][Next]_vars

----------------------------------------------------------------------------
(* Claims about render_scene *)

Pixels == 0 .. height * width - 1

\* The colour of the camera ray through column i of row j.
camera_ray_color(i, j) ==
    cast_ray(CAMERA, pixel_dir(i, j, width, height, tan_half(fov)),
             scene.shapes, scene.lights, 0)

\* C3: when render_scene has returned, on a buffer of width * height * 4
\* bytes with width and height positive, every byte has been written: the
\* closure ran for every pixel and skipped none, the three colour bytes of a
\* pixel hold its quantized colour and the fourth byte is 255.
C3_EveryByteWritten ==
    phase = "done" =>
        /\ skipped = {}
        /\ Len(frame) = height * width * 4
        /\ {r.byte : r \in written} = 1 .. Len(frame)
        /\ \A k \in Pixels :
            /\ IsSome(shaded[k + 1])
            /\ \A n \in 1 .. 3 :
                  frame[4 * k + n] = AsU8(FRound(FMul(Unwrap(shaded[k + 1])[n], Mil(255000))))
            /\ frame[4 * k + 4] = 255

\* A 2 x 2 frame has been rendered: its first pixel is the background and its
\* last is not.
C3_Witness ==
    /\ phase = "done"
    /\ height = 2
    /\ width = 2
    /\ \E r \in written : r.byte = 16
    /\ Unwrap(shaded[1]) = BACKGROUND_COLOR
    /\ Unwrap(shaded[4]) # BACKGROUND_COLOR
    /\ frame[1] # 77
    /\ frame[16] = 255

\* C4: under every interleaving of the workers, chunk k receives the colour
\* of the camera ray for column k mod width of row k div width, every byte
\* written by the closure for a chunk is one of the 4 bytes of that chunk,
\* and no byte is written for two chunks.
C4_ChunkIsPixel ==
    /\ \A r \in written : r.byte \in {4 * r.chunk + n : n \in 1 .. 4}
    /\ \A r1, r2 \in written : r1.byte = r2.byte => r1.chunk = r2.chunk
    /\ \A t1, t2 \in 1 .. Len(claimed) :
          (t1 # t2 /\ claimed[t1] # None) => claimed[t1] # claimed[t2]
    /\ phase = "done" =>
          \A k \in Pixels : shaded[k + 1] = Some(camera_ray_color(k % width, k \div width))

\* Two workers of a 2 x 2 frame hold a chunk each while another chunk has
\* been written.
C4_Witness ==
    /\ phase = "rendering"
    /\ height = 2
    /\ width = 2
    /\ workers = 2
    /\ claimed[1] # None
    /\ claimed[2] # None
    /\ written # {}

\* C5: a render call that returns after an earlier call on the same scene
\* with the same height, width and field of view leaves the same bytes in the
\* buffer as the earlier call did, whatever the number of workers, their
\* order and the contents of the buffer before the call.
C5_Deterministic ==
    (/\ phase = "done"
     /\ IsSome(prev)
     /\ Unwrap(prev).scene = scene
     /\ Unwrap(prev).height = height
     /\ Unwrap(prev).width = width
     /\ Unwrap(prev).fov = fov) => frame = Unwrap(prev).frame

\* Two calls on the same scene and 2 x 2 frame have returned, the first on
\* one worker and the second on two.
C5_Witness ==
    /\ phase = "done"
    /\ IsSome(prev)
    /\ Unwrap(prev).scene = scene
    /\ Unwrap(prev).height = 2
    /\ height = 2
    /\ Unwrap(prev).width = 2
    /\ width = 2
    /\ Unwrap(prev).fov = fov
    /\ Unwrap(prev).workers = 1
    /\ workers = 2

\* C6: no step taken while a render call is in progress changes the shapes
\* or the lights of the scene, so the scene at the end of the call is the one
\* of its start and no push_shape or push_light takes effect in between.
C6_SceneReadOnly == [][phase = "rendering" => scene' = scene]_vars

\* A second render call has returned, on a scene that a push had changed
\* after the first.
C6_Witness ==
    /\ phase = "done"
    /\ renders = 2
    /\ prev = None
    /\ Len(scene.shapes) + Len(scene.lights) = Len(FirstScene.shapes) + Len(FirstScene.lights) + 1

----------------------------------------------------------------------------
(* One call of one function, on arguments drawn from a pool *)

\* The shapes of the calls.  RimBall is a sphere whose radius squares to a
\* number that rounds up, met edge on by a ray down -z from the origin.
UnitBall == Sphere_new(Vec3(0, 0, 0), Mil(1000), RED_MATERIAL)
RimBall == Sphere_new(<<Fl(1000708), Zero, Mil(-3000)>>, Fl(1000708), GLASS_MATERIAL)
EvenBall == Sphere_new(Vec3(2000, 0, -3000), Mil(2000), GREEN_MATERIAL)
Crate == BoxShape_new(Vec3(1000, 1000, 1000), Vec3(-1000, -1000, -1000), BLUE_MATERIAL)
Ground == InfinityPlane_new(Vec3(0, -1000, 0), Vec3(0, 1000, 0), GOLD_MATERIAL)
CallShapes == {UnitBall, RimBall, EvenBall, Crate, Ground}

\* The rays of the calls: origins inside, outside and on the shapes, and
\* directions along the axes and between them.
CallOrigins ==
    {Vec3(0, 0, 0), Vec3(0, 0, 2000), Vec3(0, 500, 0), Vec3(3000, 0, 0), Vec3(0, -3000, 500),
     Vec3(2000, 0, 2000)}
FiniteDirections ==
    {Vec3(0, 0, -1000), Vec3(0, 0, 1000), Vec3(0, -1000, 0), Vec3(0, 1000, 0),
     Vec3(1000, 0, 0), normalize(Vec3(-1000, 0, -1000)), normalize(Vec3(1000, -1000, -1000))}

\* With the direction cast_ray makes of the zero vector of refract.
CallDirections == FiniteDirections \cup {normalize(ZeroVec)}

RayCalls ==
    {[shape |-> s, origin |-> o, direction |-> d] :
        s \in CallShapes, o \in CallOrigins, d \in CallDirections}

\* The colour channels of the calls of to_u8.
ColorCalls ==
    {[color |-> c] :
        c \in {NaN, PInf, NInf} \cup
               {Fl(n) : n \in {-2000000, -500000, -2000, -1, 0, 1, 1960, 1961, 1962, 5000,
                               200000, 500000, 700000, 998039, 998040, 999999, 1000000,
                               1000001, 1001961, 1500000, 2000000, 8400000}}}

\* The arguments of refract and of adjust_ray_origin.
CallNormals ==
    {Vec3(0, 0, 1000), Vec3(0, 0, -1000), Vec3(0, 1000, 0), normalize(Vec3(1000, 1000, 1000))}
RefractCalls ==
    {[direction |-> d, normal |-> n, refractive_index |-> x] :
        d \in FiniteDirections, n \in CallNormals, x \in {One, Mil(1500)}}
AdjustCalls ==
    {[direction |-> d, point |-> p, normal |-> n] :
        d \in FiniteDirections, n \in CallNormals,
        p \in {Vec3(0, 0, 0), Vec3(5000, 0, -3000), <<Fl(-1500001), Fl(2250000), Fl(999)>>}}

\* The arguments of is_in_shadow: a point on a floor that faces +z, under a
\* lid at z = 3 and a bead that hangs below it, and lights at several
\* distances, the lid's 2.999 from the shadow ray's origin among them.
Lid == InfinityPlane_new(Vec3(0, 0, 3000), Vec3(0, 0, -1000), MIRROR_MATERIAL)
Bead == Sphere_new(Vec3(0, 0, 2000), Mil(500), GREEN_MATERIAL)
ShadowCalls ==
    {[normal |-> Vec3(0, 0, 1000), point |-> Vec3(0, 0, 0), light_direction |-> d,
      light_distance |-> l, shapes |-> s] :
        d \in {Vec3(0, 0, 1000), normalize(Vec3(1000, 0, 1000)), Vec3(0, 0, -1000)},
        l \in {Mil(1000), Mil(2999), Mil(3000), Mil(5000), PInf},
        s \in {<< >>, <<Lid>>, <<Bead>>, <<Lid, Bead>>}}

CallArgs == RayCalls \cup ColorCalls \cup RefractCalls \cup AdjustCalls \cup ShadowCalls

InitCall ==
    /\ call_fn = "no"
    /\ call_args \in CallArgs
    /\ call_ret = << >>
    /\ IsectOff
    /\ CastOff
    /\ RenderOff

\* shape.ray_intersect(origin, direction)
CallRayIntersect ==
    /\ call_fn = "no"
    /\ call_args \in RayCalls
    /\ call_fn' = "ray_intersect"
    /\ call_ret' = ray_intersect(call_args.shape, call_args.origin, call_args.direction)
    /\ UNCHANGED call_args
    /\ UNCHANGED <<isectVars, castVars, renderVars>>

\* to_u8(color), by scene.rs and by main.rs
CallToU8 ==
    /\ call_fn = "no"
    /\ call_args \in ColorCalls
    /\ call_fn' = "to_u8"
    /\ call_ret' = [scene |-> to_u8(call_args.color), main |-> main_to_u8(call_args.color)]
    /\ UNCHANGED call_args
    /\ UNCHANGED <<isectVars, castVars, renderVars>>

\* The closure scene_intersect maps over the shapes: ray_intersect, the hit
\* point and get_normal.
CallHitOf ==
    /\ call_fn = "no"
    /\ call_args \in RayCalls
    /\ call_fn' = "hit_of"
    /\ call_ret' = hit_of(call_args.shape, call_args.origin, call_args.direction)
    /\ UNCHANGED call_args
    /\ UNCHANGED <<isectVars, castVars, renderVars>>

\* refract(direction, normal, refractive_index), with its locals
CallRefract ==
    /\ call_fn = "no"
    /\ call_args \in RefractCalls
    /\ call_fn' = "refract"
    /\ call_ret' =
          [value |-> refract(call_args.direction, call_args.normal, call_args.refractive_index),
           cosi |-> refract_cosi(call_args.direction, call_args.normal),
           n |-> refract_n(call_args.direction, call_args.normal),
           eta |-> refract_eta(call_args.direction, call_args.normal,
                               call_args.refractive_index),
           k |-> refract_k(call_args.direction, call_args.normal, call_args.refractive_index)]
    /\ UNCHANGED call_args
    /\ UNCHANGED <<isectVars, castVars, renderVars>>

\* adjust_ray_origin(direction, point, normal)
CallAdjustRayOrigin ==
    /\ call_fn = "no"
    /\ call_args \in AdjustCalls
    /\ call_fn' = "adjust_ray_origin"
    /\ call_ret' = adjust_ray_origin(call_args.direction, call_args.point, call_args.normal)
    /\ UNCHANGED call_args
    /\ UNCHANGED <<isectVars, castVars, renderVars>>

\* is_in_shadow(normal, point, light_direction, light_distance, shapes)
CallIsInShadow ==
    /\ call_fn = "no"
    /\ call_args \in ShadowCalls
    /\ call_fn' = "is_in_shadow"
    /\ call_ret' = is_in_shadow(call_args.normal, call_args.point, call_args.light_direction,
                                call_args.light_distance, call_args.shapes)
    /\ UNCHANGED call_args
    /\ UNCHANGED <<isectVars, castVars, renderVars>>

NextCall ==
    \/ CallRayIntersect
    \/ CallToU8
    \/ CallHitOf
    \/ CallRefract
    \/ CallAdjustRayOrigin
    \/ CallIsInShadow

SpecCall == InitCall /\ [][NextCall]_vars

\* The point of a ray at distance t.
PointAt(t) == VAdd(call_args.origin, VMulS(call_args.direction, t))

\* Whether the origin of the call is strictly inside its sphere or box.
InsideSphere == FLt(length(VSub(call_args.shape.center, call_args.origin)), call_args.shape.radius)
InsideBox ==
    \A n \in 1 .. 3 :
        /\ FLt(call_args.shape.min_point[n], call_args.origin[n])
        /\ FLt(call_args.origin[n], call_args.shape.max_point[n])

\* C11: for every shape and every ray with finite origin and direction,
\* ray_intersect returns no hit or a distance that is at least zero; from an
\* origin strictly inside a sphere or a box the distance returned is the one
\* to the surface ahead: it is positive and the point there is on the surface.
C11_DistanceNotNegative ==
    (call_fn = "ray_intersect" /\ VecFinite(call_args.origin) /\ VecFinite(call_args.direction)) =>
        /\ IsSome(call_ret) => FLe(Zero, Unwrap(call_ret))
        /\ (call_args.shape.type = "Sphere" /\ InsideSphere) =>
              /\ IsSome(call_ret)
              /\ FGt(Unwrap(call_ret), Zero)
              /\ FLt(FAbs(FSub(length(VSub(PointAt(Unwrap(call_ret)), call_args.shape.center)),
                               call_args.shape.radius)), EPSILON)
        /\ (call_args.shape.type = "BoxShape" /\ InsideBox) =>
              /\ IsSome(call_ret)
              /\ FGt(Unwrap(call_ret), Zero)
              /\ \E n \in 1 .. 3 :
                    \/ FLt(FAbs(FSub(PointAt(Unwrap(call_ret))[n], call_args.shape.min_point[n])), EPSILON)
                    \/ FLt(FAbs(FSub(PointAt(Unwrap(call_ret))[n], call_args.shape.max_point[n])), EPSILON)

\* The locals of Sphere::ray_intersect for the call: tca and d2.
sphere_tca == VDot(VSub(call_args.shape.center, call_args.origin), call_args.direction)
sphere_d2 ==
    FMulAdd(sphere_tca, FNeg(sphere_tca),
            VDot(VSub(call_args.shape.center, call_args.origin),
                 VSub(call_args.shape.center, call_args.origin)))
sphere_r2 == FMul(call_args.shape.radius, call_args.shape.radius)

\* C13: a ray that is tangent to a sphere, d2 == radius * radius, with the
\* tangent point ahead of the origin, gets a hit at t0 = t1 = tca; a ray with
\* d2 > radius * radius gets none, and no other ray with the closest point
\* ahead is a miss.
C13_TangentIsHit ==
    (call_fn = "ray_intersect" /\ call_args.shape.type = "Sphere") =>
        /\ (FEq(sphere_d2, sphere_r2) /\ FGt(sphere_tca, Zero)) =>
               call_ret = Some(sphere_tca)
        /\ FGt(sphere_d2, sphere_r2) => call_ret = None
        /\ (FLe(sphere_d2, sphere_r2) /\ FGt(sphere_tca, Zero)) => IsSome(call_ret)

\* C12: scene.rs to_u8 gives 255 for a channel above 1, +infinity included,
\* 0 for a channel below 0, -infinity included, and for NaN, and the whole
\* number nearest to 255 times the channel in between; main.rs to_u8, which
\* clamps first, gives the same byte for every channel.
C12_ToU8Clamps ==
    call_fn = "to_u8" =>
        /\ FGt(call_args.color, One) => call_ret.scene = 255
        /\ (FLt(call_args.color, Zero) \/ IsNaN(call_args.color)) => call_ret.scene = 0
        /\ (FLe(Zero, call_args.color) /\ FLe(call_args.color, One)) =>
               call_ret.scene = (call_args.color.v * 255 + 500000) \div 1000000
        /\ call_ret.main = call_ret.scene

\* to_u8 has been called on a channel above 1 that is a number.
C12_Witness ==
    /\ call_fn = "to_u8"
    /\ call_args.color = Fl(1500000)
    /\ call_ret = [scene |-> 255, main |-> 255]

\* The shadow ray of the call of is_in_shadow: its origin, what
\* scene_intersect finds along it, and how far that is from the origin.
ShadowOrigin ==
    adjust_ray_origin(call_args.light_direction, call_args.point, call_args.normal)
ShadowHit == scene_intersect(ShadowOrigin, call_args.light_direction, call_args.shapes)
ShadowReach == length(VSub(Unwrap(ShadowHit)[1], ShadowOrigin))

\* C15: is_in_shadow reports shadowed exactly when scene_intersect finds a
\* hit along the shadow ray, from the origin set off by EPSILON towards the
\* light, and the distance from that origin to the hit is below the light's;
\* without a hit, and with the hit as far as the light or farther, the point
\* is not shadowed; for a light at +infinity it is shadowed exactly when
\* there is a hit.
C15_ShadowedIffNearer ==
    call_fn = "is_in_shadow" =>
        /\ call_ret[1] <=> (IsSome(ShadowHit) /\ FLt(ShadowReach, call_args.light_distance))
        /\ ~IsSome(ShadowHit) => call_ret = <<FALSE, None>>
        /\ (IsSome(ShadowHit) /\ FLe(call_args.light_distance, ShadowReach)) => ~call_ret[1]
        /\ IsSome(ShadowHit) => call_ret[2] = Some(<<ShadowOrigin, Unwrap(ShadowHit)[1]>>)
        /\ call_args.light_distance = PInf => (call_ret[1] <=> IsSome(ShadowHit))

\* The lid is hit at 2.999 from the shadow ray's origin, the light is at
\* 2.999 too, and the point is not shadowed.
C15_Witness ==
    /\ call_fn = "is_in_shadow"
    /\ call_args.shapes = <<Lid>>
    /\ call_args.light_distance = Mil(2999)
    /\ IsSome(ShadowHit)
    /\ ShadowReach = Mil(2999)
    /\ call_ret[1] = FALSE
    /\ IsSome(call_ret[2])

\* C17: in refract, past the branch cosi < 0, n opposes the incoming ray,
\* direction . n <= 0, cosi is not negative, and eta is the index of the
\* incident side over that of the other side, 1.0 and refractive_index
\* swapped exactly when direction . normal was negative.
C17_NormalOpposesRay ==
    call_fn = "refract" =>
        /\ FLe(VDot(call_args.direction, call_ret.n), Zero)
        /\ FLe(Zero, call_ret.cosi)
        /\ call_ret.eta =
              IF FLt(VDot(call_args.direction, call_args.normal), Zero)
              THEN FDiv(call_args.refractive_index, One)
              ELSE FDiv(One, call_args.refractive_index)

BoxFaces ==
    <<<<1, call_args.shape.min_point[1], Vec3(-1000, 0, 0)>>,
      <<1, call_args.shape.max_point[1], Vec3(1000, 0, 0)>>,
      <<2, call_args.shape.min_point[2], Vec3(0, -1000, 0)>>,
      <<2, call_args.shape.max_point[2], Vec3(0, 1000, 0)>>,
      <<3, call_args.shape.min_point[3], Vec3(0, 0, -1000)>>,
      <<3, call_args.shape.max_point[3], Vec3(0, 0, 1000)>>>>
FacesNear(p) ==
    {f \in 1 .. 6 : FLt(FAbs(FSub(p[BoxFaces[f][1]], BoxFaces[f][2])), EPSILON)}
FirstFaceNormal(p) ==
    BoxFaces[CHOOSE f \in FacesNear(p) : \A g \in FacesNear(p) : f <= g][3]

\* The hit point and the normal of the call of the closure.
HitPoint == Unwrap(call_ret)[2][1]
HitNormal == Unwrap(call_ret)[2][2]

\* C19 as stated: for every hit point scene_intersect hands to
\* BoxShape::get_normal the normal is the one of the first face, in the order
\* x-min, x-max, y-min, y-max, z-min, z-max, whose plane is within EPSILON
\* of the point: a unit vector along an axis, never the zero vector.
C19_AsStated ==
    (call_fn = "hit_of" /\ call_args.shape.type = "BoxShape" /\ IsSome(call_ret)) =>
        /\ HitNormal # ZeroVec
        /\ FacesNear(HitPoint) # {}
        /\ HitNormal = FirstFaceNormal(HitPoint)

\* What get_normal does return: the normal of the first face within EPSILON
\* for every hit at a distance that is a finite number, and the zero vector
\* for a hit at a distance that is NaN, which the filter of scene_intersect
\* drops afterwards.
FirstFaceWithinEpsilon ==
    (call_fn = "hit_of" /\ call_args.shape.type = "BoxShape" /\ IsSome(call_ret)) =>
        /\ IsFin(Unwrap(call_ret)[1]) =>
              /\ HitNormal # ZeroVec
              /\ FacesNear(HitPoint) # {}
              /\ HitNormal = FirstFaceNormal(HitPoint)
        /\ IsNaN(Unwrap(call_ret)[1]) => HitNormal = ZeroVec

\* A ray has hit the box on the edge of its x-max and z-max faces, and the
\* normal is that of x-max.
EdgeHitOnCrate ==
    /\ call_fn = "hit_of"
    /\ call_args.shape = Crate
    /\ IsSome(call_ret)
    /\ IsFin(Unwrap(call_ret)[1])
    /\ FacesNear(HitPoint) = {2, 6}
    /\ HitNormal = Vec3(1000, 0, 0)

====
